---- MODULE Spec2Model ----
(***************************************************************************)
(* gofeed: feed-type detection, the orchestrating Parse (parser.go) and    *)
(* the streaming Sitemap extractor (sitemap/parse.go).                     *)
(*                                                                         *)
(* Strings are sequences of one-character strings, so that ToLower and     *)
(* TrimSpace are computed character by character.  A stream is a sequence  *)
(* of XML tokens; each token stands for the run of bytes that spells it.   *)
(***************************************************************************)
EXTENDS Integers, Sequences, FiniteSets, TLC

\* ------------------------------------------------------------------ bounds
\* most top-level children of the root element in a generated document
MaxTop == 2
\* most child elements of <url> elements, summed over the document
MaxElems == 2
\* largest number of tokens one read of the detector takes from the stream
MaxRead == 2
\* most top-level children / url children of a document that is then damaged
ErrTop == 1
ErrElems == 1
\* most top-level children / url children of a document that is generated
\* under every root, or whose parse is followed by the parse of an edited twin
SmallTop == 1
SmallElems == 1
\* the number of ParseURL and ParseURLWithProxy calls on one Parser
MaxCalls == 2

\* ----------------------------------------------------------------- strings
\* a nil pointer, slice or map is the empty tuple; Ptr(x) points to x
NilPtr == << >>
Ptr(x) == <<x>>
Deref(p) == p[1]
EmptyStr == << >>

s_urlset == <<"u","r","l","s","e","t">>
s_URLSET == <<"U","R","L","S","E","T">>
s_url == <<"u","r","l">>
s_Url == <<"U","r","l">>
s_loc == <<"l","o","c">>
s_LOC == <<"L","O","C">>
s_news == <<"n","e","w","s">>
s_News == <<"N","e","w","s">>
s_publication == <<"p","u","b","l","i","c","a","t","i","o","n">>
s_publication_date == <<"p","u","b","l","i","c","a","t","i","o","n","_","d","a","t","e">>
s_title == <<"t","i","t","l","e">>
s_name == <<"n","a","m","e">>
s_language == <<"l","a","n","g","u","a","g","e">>
s_image == <<"i","m","a","g","e">>
s_rss == <<"r","s","s">>
s_RSS == <<"R","S","S">>
s_rdf == <<"r","d","f">>
s_RDF == <<"R","D","F">>
s_feed == <<"f","e","e","d">>
s_Feed == <<"F","e","e","d">>
s_html == <<"h","t","m","l">>
s_other == <<"o","t","h","e","r">>
s_star == <<"*">>
s_unkonow == <<"u","n","k","o","n","o","w">>
s_unknow == <<"u","n","k","n","o","w">>
s_unknown == <<"u","n","k","n","o","w","n">>
s_v09 == <<"0",".","9">>
\* stands for "http://www.sitemaps.org/schemas/sitemap/0.9"
NsSitemap == <<"s","m","/","0",".","9">>
\* another default namespace
NsOther == <<"s","m","/","0",".","8">>
\* the namespace of an extension, declared with the prefix "x"
NsExt == <<"e","x","t">>

UpperToLower ==
  [c \in {"A","B","C","D","E","F","G","H","I","J","K","L","M","N","O","P","Q",
          "R","S","T","U","V","W","X","Y","Z"} |->
     CASE c = "A" -> "a" [] c = "B" -> "b" [] c = "C" -> "c" [] c = "D" -> "d"
       [] c = "E" -> "e" [] c = "F" -> "f" [] c = "G" -> "g" [] c = "H" -> "h"
       [] c = "I" -> "i" [] c = "J" -> "j" [] c = "K" -> "k" [] c = "L" -> "l"
       [] c = "M" -> "m" [] c = "N" -> "n" [] c = "O" -> "o" [] c = "P" -> "p"
       [] c = "Q" -> "q" [] c = "R" -> "r" [] c = "S" -> "s" [] c = "T" -> "t"
       [] c = "U" -> "u" [] c = "V" -> "v" [] c = "W" -> "w" [] c = "X" -> "x"
       [] c = "Y" -> "y" [] c = "Z" -> "z"]

\* strings.ToLower
ToLower(s) ==
  [i \in DOMAIN s |-> IF s[i] \in DOMAIN UpperToLower THEN UpperToLower[s[i]] ELSE s[i]]

RECURSIVE TrimLeft(_)
TrimLeft(s) == IF s # << >> /\ Head(s) = " " THEN TrimLeft(Tail(s)) ELSE s

RECURSIVE TrimRight(_)
TrimRight(s) ==
  IF s # << >> /\ s[Len(s)] = " " THEN TrimRight(SubSeq(s, 1, Len(s) - 1)) ELSE s

\* strings.TrimSpace
TrimSpace(s) == TrimRight(TrimLeft(s))

\* ------------------------------------------------------------------ tokens
\* k: "S" start tag, "E" end tag, "T" character data.  space is the
\* namespace of the element, xmlns the value of its xmlns attribute.
StartTok(space, name, xmlns) ==
  [k |-> "S", space |-> space, name |-> name, xmlns |-> xmlns, text |-> EmptyStr]
EndTok(space, name) ==
  [k |-> "E", space |-> space, name |-> name, xmlns |-> EmptyStr, text |-> EmptyStr]
TextTok(text) ==
  [k |-> "T", space |-> EmptyStr, name |-> EmptyStr, xmlns |-> EmptyStr, text |-> text]

\* ------------------------------------------------- the XML pull parser (xpp)
\* The cursor p over the token sequence toks is the index pos of its current
\* token: 0 before the first token, Len(toks) + 1 at the end of the document.
AtEnd(toks, pos) == pos > Len(toks)

\* p.Expect(event, name): the current event and the name, compared in lower case
Expect(toks, pos, event, name) ==
  /\ pos \in DOMAIN toks
  /\ toks[pos].k = event
  /\ (name = s_star \/ ToLower(toks[pos].name) = ToLower(name))

\* shared.NextTag: the next start or end tag after pos; 0 when the document
\* ends first, which NextTag reports as an error
RECURSIVE NextTag(_, _)
NextTag(toks, pos) ==
  IF pos + 1 > Len(toks) THEN 0
  ELSE IF toks[pos + 1].k \in {"S", "E"} THEN pos + 1
  ELSE NextTag(toks, pos + 1)

\* shared.FindRoot: the first start tag of the document; 0 when there is none
RECURSIVE FindRootFrom(_, _)
FindRootFrom(toks, pos) ==
  IF pos + 1 > Len(toks) THEN 0
  ELSE IF toks[pos + 1].k = "S" THEN pos + 1
  ELSE FindRootFrom(toks, pos + 1)

FindRoot(toks) == FindRootFrom(toks, 0)

\* p.Skip(): with the cursor on a start tag, consume tokens up to the end tag
\* that closes it (nesting counted, names not compared).  The result is the
\* new cursor; Len(toks) + 1 when the document ends first.
RECURSIVE SkipFrom(_, _, _)
SkipFrom(toks, pos, depth) ==
  IF pos + 1 > Len(toks) THEN Len(toks) + 1
  ELSE IF toks[pos + 1].k = "S" THEN SkipFrom(toks, pos + 1, depth + 1)
  ELSE IF toks[pos + 1].k = "E"
       THEN IF depth = 0 THEN pos + 1 ELSE SkipFrom(toks, pos + 1, depth - 1)
  ELSE SkipFrom(toks, pos + 1, depth)

Skip(toks, pos) == SkipFrom(toks, pos, 0)

\* the markup of one token, as it appears in the inner XML of an element
Render(tok) ==
  IF tok.k = "T" THEN tok.text
  ELSE IF tok.k = "S" THEN <<"<">> \o tok.name \o <<">">>
  ELSE <<"<", "/">> \o tok.name \o <<">">>

RECURSIVE InnerXML(_, _, _)
InnerXML(toks, from, to) ==
  IF from > to THEN EmptyStr ELSE Render(toks[from]) \o InnerXML(toks, from + 1, to)

\* shared.ParseText: decode the element the cursor is on and return its inner
\* XML with surrounding white space removed; an error when the document ends
\* inside the element
ParseText(toks, pos) ==
  LET end == Skip(toks, pos)
  IN  IF AtEnd(toks, end)
      THEN [ok |-> FALSE, text |-> EmptyStr, pos |-> end]
      ELSE [ok |-> TRUE, text |-> TrimSpace(InnerXML(toks, pos + 1, end - 1)), pos |-> end]

\* p.Spaces: the namespaces declared so far, each with its prefix
Spaces(toks) ==
  LET root == FindRoot(toks)
      dflt == IF root # 0 /\ toks[root].xmlns # EmptyStr
              THEN {<<toks[root].xmlns, EmptyStr>>} ELSE {}
  IN  dflt \cup {<<NsExt, <<"x">>>>}

\* shared.IsExtension: the element's namespace has a prefix other than the
\* base ones, or is an undeclared non-empty namespace
IsExtension(toks, pos) ==
  LET space == TrimSpace(toks[pos].space)
      decl == {d \in Spaces(toks) : d[1] = space}
  IN  IF decl # {}
      THEN \E d \in decl : d[2] \notin {EmptyStr, s_rss, s_rdf, <<"c","o","n","t","e","n","t">>}
      ELSE toks[pos].space # EmptyStr

\* -------------------------------------------------------------- documents
\* The generated documents.  ns is the default namespace the root declares;
\* the elements of the Sitemap vocabulary live in it.
El(space, name, content) == <<StartTok(space, name, EmptyStr)>> \o content \o <<EndTok(space, name)>>

TextEl(space, name, text) == El(space, name, <<TextTok(text)>>)

ChildIds == {"locA", "locB", "locE", "newsFull", "newsBad", "img", "ext", "unk"}
\* the children of the documents that are then damaged: one for each sub-parser
DamagedChildIds == {"locA", "newsFull", "img", "ext", "unk"}

d_valid == <<"9", "+", "2">>
d_invalid == <<"s", "o", "o", "n">>

ChildToks(ns, id) ==
  CASE id = "locA" -> TextEl(ns, s_loc, <<"a">>)
    [] id = "locB" -> TextEl(ns, s_LOC, <<" ", "b", " ">>)
    [] id = "locE" -> TextEl(ns, s_loc, <<" ">>)
    [] id = "newsFull" ->
         El(ns, s_news,
            El(ns, s_publication,
               TextEl(ns, s_name, <<"N">>) \o TextEl(ns, s_language, <<"e", "n">>))
            \o TextEl(ns, s_publication_date, d_valid)
            \o TextEl(ns, s_title, <<"T">>))
    [] id = "newsBad" -> El(ns, s_News, TextEl(ns, s_publication_date, d_invalid))
    [] id = "img" -> El(ns, s_image, TextEl(ns, s_loc, <<"i">>))
    [] id = "ext" -> TextEl(NsExt, s_loc, <<"e">>)
    [] id = "unk" -> El(ns, s_other, El(ns, s_url, TextEl(ns, s_loc, <<"z">>)))

RECURSIVE BodyToks(_, _)
BodyToks(ns, body) ==
  IF body = << >> THEN << >> ELSE ChildToks(ns, Head(body)) \o BodyToks(ns, Tail(body))

\* a top-level element: a url with its children, an element named url in the
\* extension namespace, or an element no parser knows
TopToks(ns, top, i) ==
  CASE top.t = "url" -> El(ns, IF i % 2 = 1 THEN s_url ELSE s_Url, BodyToks(ns, top.body))
    [] top.t = "ext" -> El(NsExt, s_url, TextEl(NsExt, s_loc, <<"q">>))
    [] top.t = "other" -> El(ns, s_html, El(ns, s_url, TextEl(ns, s_loc, <<"y">>)))

RECURSIVE TopsToks(_, _, _)
TopsToks(ns, tops, i) ==
  IF i > Len(tops) THEN << >> ELSE TopToks(ns, tops[i], i) \o TopsToks(ns, tops, i + 1)

\* the root start tags: the three ways a urlset is declared, and the other roots
Roots ==
  { [name |-> s_urlset, xmlns |-> NsSitemap],
    [name |-> s_URLSET, xmlns |-> NsOther],
    [name |-> s_urlset, xmlns |-> EmptyStr],
    [name |-> s_rss, xmlns |-> EmptyStr],
    [name |-> s_RDF, xmlns |-> EmptyStr],
    [name |-> s_Feed, xmlns |-> EmptyStr],
    [name |-> s_html, xmlns |-> EmptyStr] }

\* the token sequence of the document with root r and top-level elements tops
DocToks(r, tops) ==
  <<TextTok(<<" ">>), StartTok(r.xmlns, r.name, r.xmlns)>>
  \o TopsToks(r.xmlns, tops, 1)
  \o <<EndTok(r.xmlns, r.name)>>

\* the bodies with exactly n children out of the set C
Bodies(n, C) == [1..n -> C]

\* the top-level elements that are not a <url> of the root's namespace
OtherTops == {"ext", "other"}

\* the top-level elements with exactly n url children in all: a <url>, or one
\* of the kinds T
TopsOfSize(n, T, C) ==
  {[t |-> "url", body |-> b] : b \in Bodies(n, C)}
  \cup (IF n = 0 THEN {[t |-> k, body |-> << >>] : k \in T} ELSE {})

\* the sequences of at most t top-level elements with at most e url children in all
RECURSIVE Trees(_, _, _, _)
Trees(t, e, T, C) ==
  IF t = 0 THEN {<< >>}
  ELSE {<< >>} \cup
       UNION { { <<x>> \o rest : x \in TopsOfSize(n, T, C),
                              rest \in Trees(t - 1, e - n, T, C) } : n \in 0..e }

\* ------------------------------------------------------------------- dates
Digits == {"0", "1", "2", "3", "4", "5", "6", "7", "8", "9"}

DigitVal(c) ==
  CASE c = "0" -> 0 [] c = "1" -> 1 [] c = "2" -> 2 [] c = "3" -> 3 [] c = "4" -> 4
    [] c = "5" -> 5 [] c = "6" -> 6 [] c = "7" -> 7 [] c = "8" -> 8 [] c = "9" -> 9

\* shared.ParseDate on a miniature of the date formats: an hour digit, then
\* "Z" or a signed offset digit.  The result is a time with its zone offset.
ParseDate(s) ==
  IF Len(s) = 2 /\ s[1] \in Digits /\ s[2] = "Z"
  THEN [ok |-> TRUE, date |-> [hour |-> DigitVal(s[1]), off |-> 0]]
  ELSE IF Len(s) = 3 /\ s[1] \in Digits /\ s[2] \in {"+", "-"} /\ s[3] \in Digits
  THEN [ok |-> TRUE,
        date |-> [hour |-> DigitVal(s[1]),
                  off |-> IF s[2] = "+" THEN DigitVal(s[3]) ELSE 0 - DigitVal(s[3])]]
  ELSE [ok |-> FALSE, date |-> [hour |-> 0, off |-> 0]]

\* time.Time.UTC: the same instant with zone offset 0
UTC(date) == [hour |-> (date.hour - date.off) % 24, off |-> 0]

\* ------------------------------------------------------------ sitemap/feed.go
EmptyFeed ==
  [Title |-> EmptyStr, Items |-> << >>, Language |-> EmptyStr, Version |-> EmptyStr]

EmptyItem ==
  [Title |-> EmptyStr, Link |-> EmptyStr, Image |-> NilPtr, PubDate |-> EmptyStr,
   PubDateParsed |-> NilPtr, Extensions |-> NilPtr]

EmptyImage == [Link |-> EmptyStr]

EmptyNews ==
  [Name |-> EmptyStr, Title |-> EmptyStr, Language |-> EmptyStr, PublicationDate |-> EmptyStr]

\* ext.Extensions{}: an empty map that is not nil; the map is the sequence of
\* its entries in the order they were added
EmptyExtensions == Ptr(<< >>)

\* what an extractor or Parse returns: a Feed pointer and an error ("" is nil)
OkResult(f) == [feed |-> Ptr(f), err |-> ""]
ErrResult(e) == [feed |-> NilPtr, err |-> e]
NoResult == [feed |-> NilPtr, err |-> "pending"]

\* ------------------------------------------------------------- parser.go
FeedTypeUnknown == 0
FeedTypeAtom == 1
FeedTypeRSS == 2
FeedTypeSitemap == 3
\* feedType before DetectFeedType has returned
FeedTypeUnset == 0 - 1

\* DetectFeedType with the root name compared as written
DetectFeedTypeCaseSensitive(toks) ==
  LET r == FindRoot(toks)
  IN  IF r = 0 THEN FeedTypeUnknown
      ELSE LET name == toks[r].name
           IN  CASE name = s_rdf -> FeedTypeRSS
                 [] name = s_rss -> FeedTypeRSS
                 [] name = s_feed -> FeedTypeAtom
                 [] name = s_urlset -> FeedTypeSitemap
                 [] OTHER -> FeedTypeUnknown

\* DetectFeedType, on the tokens its pull parser has been given
DetectFeedType(toks) ==
  LET r == FindRoot(toks)
  IN  IF r = 0 THEN FeedTypeUnknown
      ELSE LET name == ToLower(toks[r].name)
           IN  CASE name = s_rdf -> FeedTypeRSS
                 [] name = s_rss -> FeedTypeRSS
                 [] name = s_feed -> FeedTypeAtom
                 [] name = s_urlset -> FeedTypeSitemap
                 [] OTHER -> FeedTypeUnknown

\* io.TeeReader: a read of n tokens from src after the first from tokens gives
\* them to the reader and writes them to the buffer b
TeeRead(src, from, n, b) ==
  LET data == SubSeq(src, from + 1, from + n)
  IN  [data |-> data, buf |-> b \o data, from |-> from + n]

\* MultiReader leaving the buffer out: the extractor is given the stream itself
MultiReaderStreamOnly(b, src, from) == SubSeq(src, from + 1, Len(src))

\* io.MultiReader(&buf, feed), read to the end: the buffer, then what the
\* stream src still holds after its first from tokens
MultiReader(b, src, from) == b \o SubSeq(src, from + 1, Len(src))

\* Extractor sending a stream of unknown type to the sitemap parser
ExtractorUnknownAsSitemap(ft) ==
  CASE ft = FeedTypeAtom -> "atom"
    [] ft = FeedTypeRSS -> "rss"
    [] OTHER -> "sitemap"

\* the switch of Parse: the extractor the detected type selects
Extractor(ft) ==
  CASE ft = FeedTypeAtom -> "atom"
    [] ft = FeedTypeRSS -> "rss"
    [] ft = FeedTypeSitemap -> "sitemap"
    [] OTHER -> "none"

\* rss.Parser.Parse and atom.Parser.Parse with their translators: a feed of
\* the dialect when the stream has a root element
OtherFeed(kind, toks) ==
  IF FindRoot(toks) = 0 THEN ErrResult("noroot")
  ELSE OkResult([FeedType |-> kind, Title |-> EmptyStr, Language |-> EmptyStr,
                 FeedVersion |-> EmptyStr, Items |-> << >>])

\* DefaultSitemapTranslator.Translate: the universal feed of a sitemap feed
TranslateItem(it) ==
  [Title |-> it.Title, Link |-> it.Link, Published |-> it.PubDate,
   PublishedParsed |-> it.PubDateParsed, Image |-> it.Image, Extensions |-> it.Extensions]

Translate(f) ==
  [FeedType |-> "sitemap", Title |-> f.Title, Language |-> f.Language,
   FeedVersion |-> f.Version, Items |-> [i \in DOMAIN f.Items |-> TranslateItem(f.Items[i])]]

\* sitemapTrans: the translator of the Parser, the default one when the
\* field is nil; the result is also the new value of the field
DefaultSitemapTranslator == "DefaultSitemapTranslator"

\* sitemapTrans handing out another translator once the field is set
sitemapTransStale(t) == IF t # NilPtr THEN Ptr("stale") ELSE Ptr(DefaultSitemapTranslator)

sitemapTrans(t) == IF t # NilPtr THEN t ELSE Ptr(DefaultSitemapTranslator)

\* Translator.Translate called on the translator tr: the default translator,
\* or one the application has put in the field, which marks the feed as its own
TranslateWith(tr, f) ==
  IF Deref(tr) = DefaultSitemapTranslator THEN Translate(f)
  ELSE [Translate(f) EXCEPT !.FeedType = Deref(tr)]

\* ParseSitemapFeed handing an empty Feed back beside the error of sp.Parse
ParseSitemapFeedKeepsFeed(r, t) ==
  IF r.err # "" THEN [feed |-> Ptr(TranslateWith(sitemapTrans(t), EmptyFeed)), err |-> r.err]
  ELSE OkResult(TranslateWith(sitemapTrans(t), Deref(r.feed)))

\* parseSitemapFeed after sp.Parse has returned r, on a Parser whose
\* SitemapTranslator field is t
ParseSitemapFeed(r, t) ==
  IF r.err # "" THEN ErrResult(r.err)
  ELSE OkResult(TranslateWith(sitemapTrans(t), Deref(r.feed)))

\* ---------------------------------------------- parser.go: ParseURL
\* what ParseURL and ParseURLWithProxy return: a Feed pointer, an error, and
\* for an HTTPError the StatusCode and Status it carries
Returned(r) == [feed |-> r.feed, err |-> r.err, http |-> NilPtr]
NoRet == Returned(NoResult)

HTTPError(r) ==
  [feed |-> NilPtr, err |-> "http error",
   http |-> Ptr([StatusCode |-> r.StatusCode, Status |-> r.Status])]

\* the proxy hosts a caller names
Proxies == {"p1:80", "p2:80"}

\* httpClient: the client of the Parser, made without a proxy when the field
\* is nil; the result is also the new value of the field
httpClient(c) ==
  IF c # NilPtr THEN c ELSE Ptr([Proxy |-> NilPtr, Timeout |-> 15])

\* httpClientWithProxy: the client of the Parser, made with the proxy
\* uRLProxy when the field is nil
httpClientWithProxy(c, uRLProxy) ==
  IF c # NilPtr THEN c ELSE Ptr([Proxy |-> Ptr(uRLProxy), Timeout |-> 15])

\* StatusOK taking only the 2xx codes
StatusOK2xx(code) == ~(code < 200 \/ code >= 300)

\* the test of the status code: the codes that are not turned into an HTTPError
StatusOK(code) == ~(code < 200 \/ code >= 400)

\* the deferred function: the error of Close, when there is one, is assigned
\* to the named result err after Parse has returned r
Deferred(r, closeFails) ==
  IF closeFails THEN [feed |-> r.feed, err |-> "close", http |-> NilPtr] ELSE Returned(r)

\* the status lines a server answers with
StatusLines ==
  { [StatusCode |-> 199, Status |-> "199 Early"],
    [StatusCode |-> 200, Status |-> "200 OK"],
    [StatusCode |-> 399, Status |-> "399 Redirect"],
    [StatusCode |-> 400, Status |-> "400 Bad Request"],
    [StatusCode |-> 404, Status |-> "404 Not Found"] }

\* -------------------------------------------------------- sitemap/parse.go
\* ParseVersion taking every declared namespace for the Sitemap one
ParseVersionAnyNs(tok) ==
  LET name == ToLower(tok.name)
  IN  IF name = s_urlset
      THEN IF tok.xmlns # EmptyStr THEN s_v09 ELSE s_unknow
      ELSE s_unknow

\* parseVersion, with the cursor on the token tok
ParseVersion(tok) ==
  LET name == ToLower(tok.name)
  IN  IF name = s_urlset
      THEN IF tok.xmlns = NsSitemap THEN s_v09 ELSE s_unknow
      ELSE s_unknow

\* RootBranch with the test of the name before the test of the namespace
RootBranchNameFirst(toks, j) ==
  IF ToLower(toks[j].name) = s_url THEN "url"
  ELSE "skip"

\* RootBranch with the name compared as written
RootBranchCaseSensitive(toks, j) ==
  IF IsExtension(toks, j) THEN "skip"
  ELSE IF toks[j].name = s_url THEN "url"
  ELSE "skip"

\* parseRoot: what the loop does with the start tag at j
RootBranch(toks, j) ==
  IF IsExtension(toks, j) THEN "skip"
  ELSE IF ToLower(toks[j].name) = s_url THEN "url"
  ELSE "skip"

\* parseRoot after parseItem has returned f: the guarded adoption of the
\* Title and Language of the item's feed
Bubble(ch, f) ==
  IF ch = NilPtr
  THEN Ptr([EmptyFeed EXCEPT
              !.Title = IF f.Title # EmptyStr THEN f.Title ELSE s_unkonow,
              !.Language = IF f.Language # EmptyStr THEN f.Language ELSE s_unknow])
  ELSE ch

\* parseRoot after its loop: the Feed it returns
FinishRoot(ch, its, v) ==
  LET c1 == IF ch = NilPtr THEN EmptyFeed ELSE Deref(ch)
      c2 == IF Len(its) > 0 THEN [c1 EXCEPT !.Items = c1.Items \o its] ELSE c1
  IN  [c2 EXCEPT !.Version = v]

\* parseItem: what the loop does with the start tag at j
ItemBranch(toks, j, it) ==
  LET name == ToLower(toks[j].name)
  IN  IF IsExtension(toks, j) THEN "ext"
      ELSE IF name = s_news THEN "news"
      ELSE IF name = s_loc THEN (IF Len(it.Link) > 0 THEN "continue" ELSE "loc")
      ELSE IF name = s_image THEN "image"
      ELSE "skip"

\* shared.ParseExtension: the element under the cursor is read whole and added
\* to the map under its prefix and name; an error when the document ends in it
ParseExtension(exts, toks, pos) ==
  LET end == Skip(toks, pos)
      entry == [space |-> toks[pos].space, name |-> toks[pos].name,
                value |-> TrimSpace(InnerXML(toks, pos + 1, end - 1))]
  IN  IF AtEnd(toks, end)
      THEN [ok |-> FALSE, ext |-> NilPtr, pos |-> end]
      ELSE [ok |-> TRUE, ext |-> Ptr(Append(Deref(exts), entry)), pos |-> end]

\* ItemOfNews storing the date whether or not it was parsed
ItemOfNewsAlwaysDate(it, result) ==
  LET d == ParseDate(result.PublicationDate)
  IN  [it EXCEPT !.Title = result.Title, !.PubDate = result.PublicationDate,
                 !.PubDateParsed = Ptr(UTC(d.date))]

\* parseItem after parseNews has returned result: the fields of the item
ItemOfNews(it, result) ==
  LET d == ParseDate(result.PublicationDate)
      it1 == [it EXCEPT !.Title = result.Title, !.PubDate = result.PublicationDate]
  IN  IF d.ok THEN [it1 EXCEPT !.PubDateParsed = Ptr(UTC(d.date))] ELSE it1

\* and the fields of the feed that parseItem hands up
FeedOfNews(f, result) == [f EXCEPT !.Title = result.Name, !.Language = result.Language]

\* FinishItem without the test of the length
FinishItemAlways(it, exts) == [it EXCEPT !.Extensions = exts]

\* parseItem after its loop: the collected extensions, when there are any
FinishItem(it, exts) ==
  IF Len(Deref(exts)) > 0 THEN [it EXCEPT !.Extensions = exts] ELSE it

\* SkipUnknown putting the cursor back in front of the start tag
SkipUnknownBack(toks, j) == j - 1

\* SkipUnknown without the call of p.Skip(): the cursor stays on the start tag
SkipUnknownNot(toks, j) == j

\* parseItem, parseNews, parsePublication, parseImage: the cursor after the
\* element at j that the loop does not know
SkipUnknown(toks, j) == Skip(toks, j)

\* parseNews: what the loop does with the start tag at j
NewsBranch(toks, j) ==
  LET name == ToLower(toks[j].name)
  IN  IF name = s_publication THEN "publication"
      ELSE IF name = s_publication_date THEN "publication_date"
      ELSE IF name = s_title THEN "title"
      ELSE "skip"

\* parsePublication: what the loop does with the start tag at j
PublicationBranch(toks, j) ==
  LET name == ToLower(toks[j].name)
  IN  IF name = s_name THEN "name"
      ELSE IF name = s_language THEN "language"
      ELSE "skip"

\* ImageBranch that knows no element
ImageBranchNoLoc(toks, j) == "skip"

\* parseImage: what the loop does with the start tag at j
ImageBranch(toks, j) ==
  IF ToLower(toks[j].name) = s_loc THEN "loc" ELSE "skip"

\* Failed handing back what parseRoot has collected, beside the error
FailedPartial(ch, its, e) == [feed |-> Ptr(FinishRoot(ch, its, EmptyStr)), err |-> e]

\* what Parse returns when a sub-parser has returned the error e
Failed(ch, its, e) == ErrResult(e)

\* ------------------------------------------------------------------- state
VARIABLES
  doc,         \* the content of the stream given to Parse
  fpos,        \* how many tokens of the stream have been read from it
  buf,         \* Parse: the bytes.Buffer the TeeReader writes to
  feedType,    \* Parse: the result of DetectFeedType
  extractor,   \* the extractor Parse has dispatched to ("" before)
  input,       \* what the extractor reads from the MultiReader
  pos,         \* the cursor of the extractor's pull parser
  stack,       \* the active sub-parsers of the sitemap walk, innermost last
  channel,     \* parseRoot: channel
  items,       \* parseRoot: items
  ver,         \* parseRoot: ver
  item,        \* parseItem: item
  feed,        \* parseItem: feed
  extensions,  \* parseItem: extensions
  news,        \* parseNews: news
  pub,         \* parsePublication: news
  image,       \* parseImage: image
  sf,          \* what sitemap.Parser.Parse returned
  out,         \* what Parser.Parse returned
  pc,          \* where the call of Parse is
  failures,   \* the operations of the walk that have failed in this call
  delegated,   \* the start tags shared.ParseExtension was called on in this call
  call,        \* the number of the Parse call on this Parser
  twin,        \* the stream of the next call, and how it differs from this one
  first,       \* what the first call returned
  SitemapTranslator,  \* the field of the Parser: nil until sitemapTrans sets it
  Client,      \* the field of the Parser: nil until a ParseURL call sets it
  req,         \* the exported function that was called, and the client it used
  resp,        \* the HTTP response the call was given
  ret,         \* what ParseURL or ParseURLWithProxy returned
  urlCalls     \* how many ParseURL and ParseURLWithProxy calls were made

vars ==
  <<doc, fpos, buf, feedType, extractor, input, pos, stack, channel, items, ver,
    item, feed, extensions, news, pub, image, sf, out, pc, failures, delegated, call, twin, first,
    SitemapTranslator, Client, req, resp, ret, urlCalls>>

streamVars == <<doc, fpos, buf, feedType, extractor, input>>
rootVars == <<channel, items, ver>>
itemVars == <<item, feed, extensions>>
netVars == <<Client, req, resp, ret, urlCalls>>
callVars == <<call, twin, first, SitemapTranslator, netVars>>

NoTwin == [kind |-> "none", doc |-> << >>, at |-> 0]
NoFirst == [doc |-> << >>, sf |-> NoResult, out |-> NoResult]
\* Parse called directly: no request, no response
NoReq == [fn |-> "Parse", proxyURL |-> EmptyStr, client |-> NilPtr]
NoResp == NilPtr

\* the state of a new Parser whose call is at p on the stream d
Started(d, tw, p) ==
  /\ doc = d
  /\ fpos = 0
  /\ buf = << >>
  /\ feedType = FeedTypeUnset
  /\ extractor = ""
  /\ input = << >>
  /\ pos = 0
  /\ stack = << >>
  /\ channel = NilPtr
  /\ items = << >>
  /\ ver = EmptyStr
  /\ item = EmptyItem
  /\ feed = EmptyFeed
  /\ extensions = NilPtr
  /\ news = EmptyNews
  /\ pub = EmptyNews
  /\ image = NilPtr
  /\ sf = NoResult
  /\ out = NoResult
  /\ pc = p
  /\ failures = {}
  /\ delegated = {}
  /\ call = 1
  /\ twin = tw
  /\ first = NoFirst
  /\ SitemapTranslator = NilPtr
  /\ Client = NilPtr
  /\ req = NoReq
  /\ resp = NoResp
  /\ ret = NoRet
  /\ urlCalls = 0

\* the state in which Parse has just been called on the stream d
Called(d, tw) == Started(d, tw, "detect")

\* the well-formed documents under every root
WellFormed(t, e) ==
  {DocToks(r, tops) : r \in Roots, tops \in Trees(t, e, OtherTops, ChildIds)}

\* the well-formed sitemaps whose root declares the Sitemap 0.9 namespace
Standard(t, e) ==
  {DocToks([name |-> s_urlset, xmlns |-> NsSitemap], tops) :
     tops \in Trees(t, e, OtherTops, ChildIds)}

\* the standard sitemaps whose top-level elements are all <url>
UrlsOnly(t, e) ==
  {DocToks([name |-> s_urlset, xmlns |-> NsSitemap], tops) : tops \in Trees(t, e, {}, ChildIds)}

Init ==
  \E d \in UrlsOnly(MaxTop, MaxElems) \cup Standard(MaxTop, SmallElems)
            \cup WellFormed(SmallTop, SmallElems) :
    Called(d, NoTwin)

\* ------------------------------------------------------------ Parser.Parse
Top == IF stack = << >> THEN "" ELSE stack[Len(stack)]

\* DetectFeedType reads on through the TeeReader until its pull parser has
\* the root start tag or the stream has ended; one read takes up to MaxRead
\* tokens, or all that is left
DetectRead ==
  /\ pc = "detect"
  /\ FindRoot(buf) = 0
  /\ fpos < Len(doc)
  /\ \E n \in (1..MaxRead) \cup {Len(doc) - fpos} :
       /\ n <= Len(doc) - fpos
       /\ LET r == TeeRead(doc, fpos, n, buf)
          IN  /\ buf' = r.buf
              /\ fpos' = r.from
  /\ UNCHANGED <<doc, feedType, extractor, input, pos, stack, rootVars, itemVars,
                 news, pub, image, sf, out, pc, failures, delegated, callVars>>

DetectReturn ==
  /\ pc = "detect"
  /\ FindRoot(buf) # 0 \/ fpos = Len(doc)
  /\ feedType' = DetectFeedType(buf)
  /\ pc' = "dispatch"
  /\ UNCHANGED <<doc, fpos, buf, extractor, input, pos, stack, rootVars, itemVars,
                 news, pub, image, sf, out, failures, delegated, callVars>>

\* Parse: the reader r that glues the buffer in front of the stream; input is
\* what r yields when it is read to its end
Replay ==
  /\ pc = "dispatch"
  /\ input' = MultiReader(buf, doc, fpos)
  /\ pc' = "switch"
  /\ UNCHANGED <<doc, fpos, buf, feedType, extractor, pos, stack, rootVars, itemVars,
                 news, pub, image, sf, out, failures, delegated, callVars>>

\* Parse: the switch, and for a sitemap the start of sitemap.Parser.Parse and
\* parseRoot up to its loop.  The extractor reads r, which empties the buffer
\* and the stream.
Dispatch ==
  /\ pc = "switch"
  /\ LET ex == Extractor(feedType)
         root == FindRoot(input)
     IN  /\ buf' = << >>
         /\ fpos' = Len(doc)
         /\ extractor' = ex
         /\ IF ex = "none"
            THEN /\ out' = ErrResult("Failed to detect feed type")
                 /\ pc' = "done"
                 /\ UNCHANGED <<pos, stack, rootVars, sf, failures, delegated>>
            ELSE IF ex # "sitemap"
            THEN /\ out' = OtherFeed(ex, input)
                 /\ pc' = "done"
                 /\ UNCHANGED <<pos, stack, rootVars, sf, failures, delegated>>
            ELSE IF root = 0
            THEN /\ sf' = ErrResult("noroot")
                 /\ failures' = failures \cup {<<"findroot", "">>}
                 /\ UNCHANGED delegated
                 /\ pc' = "extracted"
                 /\ UNCHANGED <<pos, stack, rootVars, out>>
            ELSE IF ~Expect(input, root, "S", s_urlset)
            THEN /\ sf' = ErrResult("expect")
                 /\ failures' = failures \cup {<<"expect", "">>}
                 /\ UNCHANGED delegated
                 /\ pc' = "extracted"
                 /\ pos' = root
                 /\ UNCHANGED <<stack, rootVars, out>>
            ELSE /\ pos' = root
                 /\ channel' = Ptr(EmptyFeed)
                 /\ items' = << >>
                 /\ ver' = ParseVersion(input[root])
                 /\ stack' = <<"root">>
                 /\ pc' = "sitemap"
                 /\ UNCHANGED <<sf, out, failures, delegated>>
  /\ UNCHANGED <<doc, feedType, input, itemVars, news, pub, image, callVars>>

\* parseSitemapFeed once sitemap.Parser.Parse has returned; the translator
\* is asked for only when there is a feed to translate
TranslateStep ==
  /\ pc = "extracted"
  /\ out' = ParseSitemapFeed(sf, SitemapTranslator)
  /\ SitemapTranslator' = IF sf.err = "" THEN sitemapTrans(SitemapTranslator)
                          ELSE SitemapTranslator
  /\ pc' = "done"
  /\ UNCHANGED <<streamVars, pos, stack, rootVars, itemVars, news, pub, image, sf,
                 failures, delegated, call, twin, first, netVars>>

\* -------------------------------------------------- the walk of the sitemap
\* a sub-parser returns the error e, and every caller hands it on
Abort(e, what) ==
  /\ sf' = Failed(channel, items, e)
  /\ failures' = failures \cup {<<what, Top>>}
  /\ delegated' = IF what = "extension" THEN delegated \cup {NextTag(input, pos)} ELSE delegated
  /\ pc' = "extracted"
  /\ stack' = << >>
  /\ channel' = NilPtr
  /\ items' = << >>
  /\ ver' = EmptyStr
  /\ item' = EmptyItem
  /\ feed' = EmptyFeed
  /\ extensions' = NilPtr
  /\ news' = EmptyNews
  /\ pub' = EmptyNews
  /\ image' = NilPtr
  /\ UNCHANGED <<streamVars, pos, out, callVars>>

\* p.Skip() on the element at j; its error is not looked at
SkipAt(j) ==
  /\ pos' = SkipUnknown(input, j)
  /\ failures' = IF AtEnd(input, SkipUnknown(input, j)) THEN failures \cup {<<"skip", Top>>} ELSE failures
  /\ UNCHANGED delegated

\* one turn of the loop of parseRoot, and what follows the loop
RootStep ==
  /\ pc = "sitemap"
  /\ Top = "root"
  /\ LET j == NextTag(input, pos)
     IN  IF j = 0 THEN Abort("eof", "nexttag")
         ELSE IF input[j].k = "E"
         THEN IF ~Expect(input, j, "E", s_urlset) THEN Abort("expect", "expect")
              ELSE /\ sf' = OkResult(FinishRoot(channel, items, ver))
                   /\ pc' = "extracted"
                   /\ pos' = j
                   /\ stack' = << >>
                   /\ channel' = NilPtr
                   /\ items' = << >>
                   /\ ver' = EmptyStr
                   /\ UNCHANGED <<streamVars, itemVars, news, pub, image, out,
                                  failures, delegated, callVars>>
         ELSE IF RootBranch(input, j) = "url"
         THEN /\ pos' = j
              /\ stack' = Append(stack, "item")
              /\ item' = EmptyItem
              /\ feed' = EmptyFeed
              /\ extensions' = EmptyExtensions
              /\ UNCHANGED <<streamVars, rootVars, news, pub, image, sf, out, pc,
                             failures, delegated, callVars>>
         ELSE /\ SkipAt(j)
              /\ UNCHANGED <<streamVars, stack, rootVars, itemVars, news, pub, image,
                             sf, out, pc, callVars>>

\* one turn of the loop of parseItem, and its return to parseRoot
ItemStep ==
  /\ pc = "sitemap"
  /\ Top = "item"
  /\ LET j == NextTag(input, pos)
         b == ItemBranch(input, j, item)
     IN  IF j = 0 THEN Abort("eof", "nexttag")
         ELSE IF input[j].k = "E"
         THEN IF ~Expect(input, j, "E", s_url) THEN Abort("expect", "expect")
              ELSE /\ items' = Append(items, FinishItem(item, extensions))
                   /\ channel' = Bubble(channel, feed)
                   /\ pos' = j
                   /\ stack' = SubSeq(stack, 1, Len(stack) - 1)
                   /\ item' = EmptyItem
                   /\ feed' = EmptyFeed
                   /\ extensions' = NilPtr
                   /\ UNCHANGED <<streamVars, ver, news, pub, image, sf, out, pc,
                                  failures, delegated, callVars>>
         ELSE IF b = "ext"
         THEN LET r == ParseExtension(extensions, input, j)
              IN  IF ~r.ok THEN Abort("ext", "extension")
                  ELSE /\ item' = [item EXCEPT !.Extensions = r.ext]
                       /\ extensions' = r.ext
                       /\ delegated' = delegated \cup {j}
                       /\ pos' = r.pos
                       /\ UNCHANGED <<streamVars, stack, rootVars, feed, news, pub,
                                      image, sf, out, pc, failures, callVars>>
         ELSE IF b = "news"
         THEN /\ pos' = j
              /\ stack' = Append(stack, "news")
              /\ news' = EmptyNews
              /\ UNCHANGED <<streamVars, rootVars, itemVars, pub, image, sf, out, pc,
                             failures, delegated, callVars>>
         ELSE IF b = "continue"
         THEN /\ pos' = j
              /\ UNCHANGED <<streamVars, stack, rootVars, itemVars, news, pub, image,
                             sf, out, pc, failures, delegated, callVars>>
         ELSE IF b = "loc"
         THEN LET r == ParseText(input, j)
              IN  IF ~r.ok THEN Abort("text", "text")
                  ELSE /\ item' = [item EXCEPT !.Link = r.text]
                       /\ pos' = r.pos
                       /\ UNCHANGED <<streamVars, stack, rootVars, feed, extensions,
                                      news, pub, image, sf, out, pc, failures, delegated, callVars>>
         ELSE IF b = "image"
         THEN /\ pos' = j
              /\ stack' = Append(stack, "image")
              /\ image' = Ptr(EmptyImage)
              /\ UNCHANGED <<streamVars, rootVars, itemVars, news, pub, sf, out, pc,
                             failures, delegated, callVars>>
         ELSE /\ SkipAt(j)
              /\ UNCHANGED <<streamVars, stack, rootVars, itemVars, news, pub, image,
                             sf, out, pc, callVars>>

\* one turn of the loop of parseNews, and its return to parseItem
NewsStep ==
  /\ pc = "sitemap"
  /\ Top = "news"
  /\ LET j == NextTag(input, pos)
         b == NewsBranch(input, j)
     IN  IF j = 0 THEN Abort("eof", "nexttag")
         ELSE IF input[j].k = "E"
         THEN IF ~Expect(input, j, "E", s_news) THEN Abort("expect", "expect")
              ELSE /\ item' = ItemOfNews(item, news)
                   /\ feed' = FeedOfNews(feed, news)
                   /\ failures' = IF ParseDate(news.PublicationDate).ok
                                  THEN failures ELSE failures \cup {<<"date", "item">>}
                   /\ UNCHANGED delegated
                   /\ pos' = j
                   /\ stack' = SubSeq(stack, 1, Len(stack) - 1)
                   /\ news' = EmptyNews
                   /\ UNCHANGED <<streamVars, rootVars, extensions, pub, image, sf,
                                  out, pc, callVars>>
         ELSE IF b = "publication"
         THEN /\ pos' = j
              /\ stack' = Append(stack, "publication")
              /\ pub' = EmptyNews
              /\ UNCHANGED <<streamVars, rootVars, itemVars, news, image, sf, out, pc,
                             failures, delegated, callVars>>
         ELSE IF b \in {"publication_date", "title"}
         THEN LET r == ParseText(input, j)
              IN  IF ~r.ok THEN Abort("text", "text")
                  ELSE /\ news' = IF b = "title"
                                  THEN [news EXCEPT !.Title = r.text]
                                  ELSE [news EXCEPT !.PublicationDate = r.text]
                       /\ pos' = r.pos
                       /\ UNCHANGED <<streamVars, stack, rootVars, itemVars, pub, image,
                                      sf, out, pc, failures, delegated, callVars>>
         ELSE /\ SkipAt(j)
              /\ UNCHANGED <<streamVars, stack, rootVars, itemVars, news, pub, image,
                             sf, out, pc, callVars>>

\* one turn of the loop of parsePublication, and its return to parseNews
PublicationStep ==
  /\ pc = "sitemap"
  /\ Top = "publication"
  /\ LET j == NextTag(input, pos)
         b == PublicationBranch(input, j)
     IN  IF j = 0 THEN Abort("eof", "nexttag")
         ELSE IF input[j].k = "E"
         THEN IF ~Expect(input, j, "E", s_publication) THEN Abort("expect", "expect")
              ELSE /\ news' = [news EXCEPT !.Name = pub.Name, !.Language = pub.Language]
                   /\ pos' = j
                   /\ stack' = SubSeq(stack, 1, Len(stack) - 1)
                   /\ pub' = EmptyNews
                   /\ UNCHANGED <<streamVars, rootVars, itemVars, image, sf, out, pc,
                                  failures, delegated, callVars>>
         ELSE IF b \in {"name", "language"}
         THEN LET r == ParseText(input, j)
              IN  IF ~r.ok THEN Abort("text", "text")
                  ELSE /\ pub' = IF b = "name"
                                 THEN [pub EXCEPT !.Name = r.text]
                                 ELSE [pub EXCEPT !.Language = r.text]
                       /\ pos' = r.pos
                       /\ UNCHANGED <<streamVars, stack, rootVars, itemVars, news, image,
                                      sf, out, pc, failures, delegated, callVars>>
         ELSE /\ SkipAt(j)
              /\ UNCHANGED <<streamVars, stack, rootVars, itemVars, news, pub, image,
                             sf, out, pc, callVars>>

\* one turn of the loop of parseImage, and its return to parseItem
ImageStep ==
  /\ pc = "sitemap"
  /\ Top = "image"
  /\ LET j == NextTag(input, pos)
         b == ImageBranch(input, j)
     IN  IF j = 0 THEN Abort("eof", "nexttag")
         ELSE IF input[j].k = "E"
         THEN IF ~Expect(input, j, "E", s_image) THEN Abort("expect", "expect")
              ELSE /\ item' = [item EXCEPT !.Image = image]
                   /\ pos' = j
                   /\ stack' = SubSeq(stack, 1, Len(stack) - 1)
                   /\ image' = NilPtr
                   /\ UNCHANGED <<streamVars, rootVars, feed, extensions, news, pub, sf,
                                  out, pc, failures, delegated, callVars>>
         ELSE IF b = "loc"
         THEN LET r == ParseText(input, j)
              IN  IF ~r.ok THEN Abort("text", "text")
                  ELSE /\ image' = Ptr([Deref(image) EXCEPT !.Link = r.text])
                       /\ pos' = r.pos
                       /\ UNCHANGED <<streamVars, stack, rootVars, itemVars, news, pub,
                                      sf, out, pc, failures, delegated, callVars>>
         ELSE /\ SkipAt(j)
              /\ UNCHANGED <<streamVars, stack, rootVars, itemVars, news, pub, image,
                             sf, out, pc, callVars>>

Next ==
  \/ DetectRead
  \/ DetectReturn
  \/ Replay
  \/ Dispatch
  \/ RootStep
  \/ ItemStep
  \/ NewsStep
  \/ PublicationStep
  \/ ImageStep
  \/ TranslateStep

Spec == Init /\ [][Next]_vars

\* ------------------------------------------- two calls on the same Parser
\* the lower-case names of the elements that are open before token i of d
RECURSIVE PathUpTo(_, _)
PathUpTo(d, k) ==
  IF k = 0 THEN << >>
  ELSE LET before == PathUpTo(d, k - 1)
       IN  IF d[k].k = "S" THEN Append(before, ToLower(d[k].name))
           ELSE IF d[k].k = "E" /\ before # << >> THEN SubSeq(before, 1, Len(before) - 1)
           ELSE before

OpenPath(d, i) == PathUpTo(d, i - 1)

\* the places of a document where the walk reads the children of an element
WalkedPaths ==
  { <<s_urlset>>, <<s_urlset, s_url>>, <<s_urlset, s_url, s_news>>,
    <<s_urlset, s_url, s_news, s_publication>>, <<s_urlset, s_url, s_image>> }

InsertPoints(d) == {i \in 2..Len(d) : OpenPath(d, i) \in WalkedPaths}

\* an element no sub-parser knows, holding elements with every known name
UnknownSubtree(ns) ==
  El(ns, s_other,
     TextEl(ns, s_loc, <<"w">>) \o TextEl(ns, s_title, <<"k">>)
     \o TextEl(ns, s_name, <<"m">>) \o TextEl(ns, s_language, <<"g">>)
     \o TextEl(ns, s_publication_date, <<"7", "Z">>)
     \o El(ns, s_url, El(ns, s_news, El(ns, s_publication, El(ns, s_image, << >>)))))

InsertAt(d, i, sub) == SubSeq(d, 1, i - 1) \o sub \o SubSeq(d, i, Len(d))

\* the text tokens of d that are an unparsable publication date
BadDates(d) ==
  {i \in 1..Len(d) : d[i].k = "T" /\ d[i].text = d_invalid
                     /\ OpenPath(d, i) = <<s_urlset, s_url, s_news, s_publication_date>>}

\* the streams a second call is given after the well-formed stream d: d with
\* an unknown element put in, d with an unparsable date made valid
Twins(d) ==
  {[kind |-> "insert", at |-> i,
     doc |-> InsertAt(d, i, UnknownSubtree(d[FindRoot(d)].xmlns))] : i \in InsertPoints(d)}
  \cup {[kind |-> "date", at |-> i, doc |-> [d EXCEPT ![i] = TextTok(d_valid)]] : i \in BadDates(d)}

\* a well-formed sitemap cut short after i tokens, or with token i left out
Damaged(t, e) ==
  LET base == {DocToks([name |-> s_urlset, xmlns |-> NsSitemap], tops) :
                 tops \in Trees(t, e, OtherTops, DamagedChildIds)}
  IN  UNION { {SubSeq(d, 1, i) : i \in 0..(Len(d) - 1)}
              \cup {SubSeq(d, 1, i - 1) \o SubSeq(d, i + 1, Len(d)) : i \in 1..Len(d)} : d \in base }

\* the well-formed sitemaps that are parsed a second time as a twin
Twinned == Standard(SmallTop, SmallElems)

InitPair == \E d \in Twinned \cup Damaged(ErrTop, ErrElems) : Called(d, NoTwin)

\* the streams of a call made between the first call and its repetition: one
\* for each way Parse ends
Between ==
  LET std == [name |-> s_urlset, xmlns |-> NsSitemap]
      full == DocToks(std, <<[t |-> "url", body |-> <<"locB", "ext">>]>>)
  IN  { << >>,
        DocToks([name |-> s_rss, xmlns |-> EmptyStr], << >>),
        DocToks([name |-> s_html, xmlns |-> EmptyStr], << >>),
        full,
        SubSeq(full, 1, Len(full) - 2) }

\* the local variables of a new call on the stream d, which starts at p
Locals(d, p) ==
  /\ doc' = d
  /\ pc' = p
  /\ fpos' = 0
  /\ buf' = << >>
  /\ feedType' = FeedTypeUnset
  /\ extractor' = ""
  /\ input' = << >>
  /\ pos' = 0
  /\ sf' = NoResult
  /\ out' = NoResult
  /\ failures' = {}
  /\ delegated' = {}
  /\ UNCHANGED <<stack, rootVars, itemVars, news, pub, image>>

\* a new call of Parse on the stream d
Entered(d) == Locals(d, "detect") /\ UNCHANGED <<SitemapTranslator, netVars>>

\* Parse has returned on a well-formed sitemap, and is called again on the
\* same Parser with a twin of the stream
SecondCall ==
  /\ pc = "done"
  /\ call = 1
  /\ extractor = "sitemap"
  /\ doc \in Twinned
  /\ call' = 2
  /\ first' = [doc |-> doc, sf |-> sf, out |-> out]
  /\ \E tw \in Twins(doc) :
       /\ twin' = tw
       /\ Entered(tw.doc)

NextPair == Next \/ SecondCall

SpecPair == InitPair /\ [][NextPair]_vars

\* ------------------------------- a sequence of calls on the same Parser
\* Parse has returned for the first time, and is called on the same Parser
\* with another stream
BetweenCall ==
  /\ pc = "done"
  /\ call = 1
  /\ call' = 2
  /\ first' = [doc |-> doc, sf |-> sf, out |-> out]
  /\ twin' = twin
  /\ \E d \in Between : Entered(d)

\* Parse has returned, and is called on the same Parser with the stream of
\* the first call: directly after the first call, or after the call in between
RepeatCall ==
  /\ pc = "done"
  /\ call \in {1, 2}
  /\ twin = NoTwin
  /\ call' = call + 1
  /\ LET base == IF call = 1 THEN [doc |-> doc, sf |-> sf, out |-> out] ELSE first
     IN  /\ first' = base
         /\ twin' = [kind |-> "same", doc |-> base.doc, at |-> 0]
         /\ Entered(base.doc)

InitSeq == \E d \in Standard(SmallTop, SmallElems) \cup Between : Called(d, NoTwin)

NextSeq == Next \/ BetweenCall \/ RepeatCall

SpecSeq == InitSeq /\ [][NextSeq]_vars

\* one call of Parse that always takes its next step: the program runs on
\* until Parse returns
SpecLive == InitPair /\ [][Next]_vars /\ WF_vars(Next)

\* ------------------------------------------- ParseURL, ParseURLWithProxy
\* the bodies of the responses: one for each way Parse ends and each
\* sub-parser of the sitemap walk
UrlBodies ==
  LET std == [name |-> s_urlset, xmlns |-> NsSitemap]
      a == DocToks(std, <<[t |-> "url", body |-> <<"locA", "newsFull">>]>>)
      b == DocToks(std, <<[t |-> "url", body |-> <<"img", "ext">>]>>)
  IN  { << >>, DocToks([name |-> s_html, xmlns |-> EmptyStr], << >>), a, b,
        SubSeq(b, 1, Len(b) - 2) }

\* what client.Get or client.Do gives: a transport error, or a response with
\* its status line, its body, and whether closing the body will fail
Outcomes ==
  {[failed |-> TRUE, StatusCode |-> 0, Status |-> "", Body |-> << >>, closeFails |-> FALSE]}
  \cup {[failed |-> FALSE, StatusCode |-> l.StatusCode, Status |-> l.Status,
          Body |-> b, closeFails |-> c] : l \in StatusLines, b \in UrlBodies, c \in BOOLEAN}

\* ParseURL and ParseURLWithProxy from the request on: the client is kept in
\* the field, the request goes through it, and the body is handed to Parse
\* unless the request failed or the status is turned into an HTTPError
Fetch(fn, px, client, o) ==
  /\ Client' = client
  /\ req' = [fn |-> fn, proxyURL |-> px, client |-> client]
  /\ urlCalls' = urlCalls + 1
  /\ IF o.failed
     THEN /\ resp' = NoResp
          /\ ret' = Returned(ErrResult("get"))
          /\ Locals(<< >>, "returned")
     ELSE /\ resp' = Ptr([StatusCode |-> o.StatusCode, Status |-> o.Status, Body |-> o.Body,
                          closeFails |-> o.closeFails, closed |-> FALSE])
          /\ IF ~StatusOK(o.StatusCode)
             THEN /\ ret' = HTTPError(o)
                  /\ Locals(<< >>, "returned")
             ELSE /\ ret' = NoRet
                  /\ Locals(o.Body, "detect")
  /\ UNCHANGED <<call, twin, first, SitemapTranslator>>

ParseURL ==
  /\ pc \in {"idle", "returned"}
  /\ urlCalls < MaxCalls
  /\ \E o \in Outcomes : Fetch("ParseURL", EmptyStr, httpClient(Client), o)

ParseURLWithProxy ==
  /\ pc \in {"idle", "returned"}
  /\ urlCalls < MaxCalls
  /\ \E px \in Proxies, o \in Outcomes :
       Fetch("ParseURLWithProxy", px, httpClientWithProxy(Client, px), o)

\* Parse has returned to ParseURL or ParseURLWithProxy: the deferred function
\* closes the body, and the call returns
ReturnURL ==
  /\ pc = "done"
  /\ req.fn # "Parse"
  /\ resp' = Ptr([Deref(resp) EXCEPT !.closed = TRUE])
  /\ ret' = Deferred(out, Deref(resp).closeFails)
  /\ pc' = "returned"
  /\ UNCHANGED <<streamVars, pos, stack, rootVars, itemVars, news, pub, image, sf, out,
                 failures, delegated, call, twin, first, SitemapTranslator, Client, req,
                 urlCalls>>

InitURL == Started(<< >>, NoTwin, "idle")

NextURL == Next \/ ParseURL \/ ParseURLWithProxy \/ ReturnURL

SpecURL == InitURL /\ [][NextURL]_vars

\* ------------------------------------------------ the shape of a document
\* These read the element structure off the token sequence d, without the
\* cursor: the claims compare the result of the walk with them.
\* dp[k] is the number of elements open after token k
RECURSIVE DepthsFrom(_, _, _)
DepthsFrom(d, k, acc) ==
  IF k > Len(d) THEN acc
  ELSE LET cur == IF k = 1 THEN 0 ELSE acc[k - 1]
           nxt == IF d[k].k = "S" THEN cur + 1
                  ELSE IF d[k].k = "E" /\ cur > 0 THEN cur - 1
                  ELSE cur
       IN  DepthsFrom(d, k + 1, Append(acc, nxt))

Depths(d) == DepthsFrom(d, 1, << >>)

Depth(dp, k) == IF k = 0 THEN 0 ELSE dp[k]

\* the end tag that closes the start tag at j (Len(d) + 1 when there is none)
Closing(d, dp, j) ==
  LET ends == {k \in (j + 1)..Len(d) : d[k].k = "E" /\ Depth(dp, k) = Depth(dp, j - 1)}
  IN  IF ends = {} THEN Len(d) + 1 ELSE CHOOSE k \in ends : \A m \in ends : k <= m

\* the start tags of the children of the element at j
ChildStarts(d, dp, j) ==
  {k \in (j + 1)..(Closing(d, dp, j) - 1) : d[k].k = "S" /\ Depth(dp, k - 1) = Depth(dp, j)}

RECURSIVE SortedSeq(_)
SortedSeq(S) ==
  IF S = {} THEN << >>
  ELSE LET m == CHOOSE x \in S : \A y \in S : x <= y
       IN  <<m>> \o SortedSeq(S \ {m})

InExtensionNs(tok) == tok.space = NsExt

\* the children of the element at j with the given lower-case name, outside
\* the extension namespace, in document order
Named(d, dp, j, name) ==
  SortedSeq({k \in ChildStarts(d, dp, j) : ToLower(d[k].name) = name /\ ~InExtensionNs(d[k])})

\* the <url> children of the root
UrlStarts(d, dp) == Named(d, dp, FindRoot(d), s_url)

\* the text of the element at k: its character data without the white space
\* around it
TextOf(d, k) ==
  IF k + 1 <= Len(d) /\ d[k + 1].k = "T" THEN TrimSpace(d[k + 1].text) ELSE EmptyStr

LocTexts(d, dp, u) ==
  LET locs == Named(d, dp, u, s_loc) IN [i \in DOMAIN locs |-> TextOf(d, locs[i])]

FirstNonEmpty(texts) ==
  LET full == {i \in DOMAIN texts : texts[i] # EmptyStr}
  IN  IF full = {} THEN EmptyStr ELSE texts[CHOOSE i \in full : \A m \in full : i <= m]

\* the text of the element called leaf in the last <publication> of the last
\* <news> of the url at u; empty when there is none
PublicationText(d, dp, u, leaf) ==
  LET ns == Named(d, dp, u, s_news)
      ps == IF ns = << >> THEN << >> ELSE Named(d, dp, ns[Len(ns)], s_publication)
      ls == IF ps = << >> THEN << >> ELSE Named(d, dp, ps[Len(ps)], leaf)
  IN  IF ls = << >> THEN EmptyStr ELSE TextOf(d, ls[Len(ls)])

\* the number of the <url> of d that holds token i
UrlIndex(d, dp, i) ==
  LET us == UrlStarts(d, dp)
  IN  CHOOSE n \in DOMAIN us : us[n] < i /\ i < Closing(d, dp, us[n])

SitemapDone == pc = "done" /\ extractor = "sitemap"
SitemapOk == SitemapDone /\ sf.err = ""

\* ------------------------------------------------------------------ claims
\* C1: a successful sitemap Parse returns exactly one Item per <url> child of
\* the root (name in any case, not in an extension namespace), in document
\* order: item i is the item of the i-th <url>, told by its Link.
C1_OneItemPerUrl ==
  SitemapOk =>
    LET dp == Depths(doc)
        us == UrlStarts(doc, dp)
        its == Deref(sf.feed).Items
    IN  /\ Len(its) = Len(us)
        /\ \A i \in DOMAIN its : its[i].Link = FirstNonEmpty(LocTexts(doc, dp, us[i]))

C1_Witness ==
  /\ SitemapOk
  /\ Len(Deref(sf.feed).Items) = 2
  /\ Deref(sf.feed).Items[1].Link = <<"a">>
  /\ Deref(sf.feed).Items[2].Link = <<"b">>

\* C2: a <url> with several <loc> children parses to an Item whose Link is the
\* first non-empty <loc>, and the rest of the document is parsed as usual.
C2_DuplicateLocIdempotent ==
  (SitemapDone /\ \E u \in ChildStarts(doc, Depths(doc), FindRoot(doc)) :
                    Len(LocTexts(doc, Depths(doc), u)) >= 2) =>
    LET dp == Depths(doc)
        us == UrlStarts(doc, dp)
    IN  /\ sf.err = ""
        /\ Len(Deref(sf.feed).Items) = Len(us)
        /\ \A i \in DOMAIN us :
             Deref(sf.feed).Items[i].Link = FirstNonEmpty(LocTexts(doc, dp, us[i]))

C4_TitleLanguageBubbled ==
  (SitemapOk /\ UrlStarts(doc, Depths(doc)) # << >>) =>
    LET dp == Depths(doc)
        u == UrlStarts(doc, dp)[1]
        n == PublicationText(doc, dp, u, s_name)
        l == PublicationText(doc, dp, u, s_language)
    IN  /\ Deref(sf.feed).Title = IF n # EmptyStr THEN n ELSE s_unkonow
        /\ Deref(sf.feed).Language = IF l # EmptyStr THEN l ELSE s_unknow

\* C5: the detected type follows the root name in any case (rdf and rss: RSS,
\* feed: Atom, urlset: Sitemap, any other: Unknown), Parse dispatches to the
\* extractor of that type, and fails for Unknown.
RootNameIn(names) == FindRoot(doc) # 0 /\ doc[FindRoot(doc)].name \in names

C5_DetectAndDispatch ==
  LET expected ==
        IF RootNameIn({s_rdf, s_RDF, s_rss, s_RSS}) THEN FeedTypeRSS
        ELSE IF RootNameIn({s_feed, s_Feed}) THEN FeedTypeAtom
        ELSE IF RootNameIn({s_urlset, s_URLSET}) THEN FeedTypeSitemap
        ELSE FeedTypeUnknown
  IN  /\ feedType # FeedTypeUnset => feedType = expected
      /\ extractor # "" =>
           extractor = CASE expected = FeedTypeRSS -> "rss"
                         [] expected = FeedTypeAtom -> "atom"
                         [] expected = FeedTypeSitemap -> "sitemap"
                         [] OTHER -> "none"
      /\ (pc = "done" /\ expected = FeedTypeUnknown) =>
           out = ErrResult("Failed to detect feed type") /\ sf = NoResult

C5_Witness ==
  /\ pc = "done"
  /\ RootNameIn({s_RDF})
  /\ feedType = FeedTypeRSS
  /\ extractor = "rss"
  /\ out.err = ""

\* C6: however many tokens the detector has read, the reader handed to the
\* extractor yields the stream as it was: the buffer holds what was read, in
\* order, and the reader continues with the unread rest.
C6_ReplayKeepsBytes ==
  /\ pc \in {"detect", "dispatch", "switch"} => buf = SubSeq(doc, 1, fpos)
  /\ pc = "switch" => input = doc
  /\ extractor # "" => input = doc

\* the detector has read past the root start tag, and not the whole stream
C6_Witness ==
  /\ pc = "switch"
  /\ input = doc
  /\ Len(buf) > FindRoot(doc)
  /\ fpos < Len(doc)

\* C7: a failure of the cursor at any level of the walk (a tag that is not
\* the expected one, the end of the input) ends the walk there; Parse returns
\* that error and no Feed, never a Feed beside an error.
Fatal == {"findroot", "expect", "nexttag", "text", "extension"}

C7_ErrorAbortsWithoutFeed ==
  /\ (\E f \in failures : f[1] \in Fatal) =>
       /\ pc \in {"extracted", "done"}
       /\ stack = << >>
       /\ sf.err # ""
  /\ (pc \in {"extracted", "done"} /\ extractor = "sitemap") =>
       (sf.err # "" <=> sf.feed = NilPtr)
  /\ (SitemapDone /\ \E f \in failures : f[1] # "date") => sf.err # ""
  /\ (SitemapDone /\ sf.err # "") => out = ErrResult(sf.err)
  /\ SitemapDone => (out.err # "" <=> out.feed = NilPtr)

\* the input ended inside a <publication>, after a first <url> had been read
C7_Witness ==
  /\ SitemapDone
  /\ <<"nexttag", "publication">> \in failures
  /\ out = ErrResult("eof")

\* C8: a publication date that cannot be parsed does not abort the parse: the
\* Item keeps the raw text in PubDate with PubDateParsed unset, and everything
\* else is parsed as for the document with a valid date in its place.  No
\* other failure is survived.
SameBut(its1, its2, n) ==
  /\ Len(its1) = Len(its2)
  /\ \A i \in DOMAIN its1 :
       IF i = n
       THEN [its1[i] EXCEPT !.PubDate = EmptyStr, !.PubDateParsed = NilPtr]
            = [its2[i] EXCEPT !.PubDate = EmptyStr, !.PubDateParsed = NilPtr]
       ELSE its1[i] = its2[i]

C9_UnknownSubtreeSkipped ==
  (SitemapDone /\ call = 2 /\ twin.kind = "insert") =>
    /\ sf = first.sf
    /\ out = first.out

C9_Witness ==
  /\ SitemapOk
  /\ call = 2
  /\ twin.kind = "insert"
  /\ OpenPath(first.doc, twin.at) = <<s_urlset, s_url, s_news, s_publication>>
  /\ sf = first.sf
  /\ Len(Deref(sf.feed).Items) = 1

\* C10: in the result of a successful sitemap Parse, an Item's Extensions is
\* non-nil exactly when its <url> has a child in an extension namespace.
C10_ExtensionsIffSeen ==
  SitemapOk =>
    LET dp == Depths(doc)
        us == UrlStarts(doc, dp)
        its == Deref(sf.feed).Items
    IN  \A i \in DOMAIN its :
          its[i].Extensions # NilPtr
            <=> \E k \in ChildStarts(doc, dp, us[i]) : InExtensionNs(doc[k])

C10_Witness ==
  /\ SitemapOk
  /\ Len(Deref(sf.feed).Items) = 2
  /\ Deref(sf.feed).Items[1].Extensions # NilPtr
  /\ Deref(sf.feed).Items[2].Extensions = NilPtr
  /\ Deref(sf.feed).Items[2].Link # EmptyStr

\* C11: a Parse call on the stream of the first call gives what the first call
\* gave, the same Feed or the same error from the extractor and from Parse,
\* whether it follows the first call directly or a call on another stream
C11_SameStreamSameResult ==
  (pc = "done" /\ twin.kind = "same") => (out = first.out /\ sf = first.sf)

\* a repetition after a call in between has returned a Feed with an Item
C11_Witness ==
  /\ pc = "done"
  /\ twin.kind = "same"
  /\ call = 3
  /\ out.err = ""
  /\ Len(Deref(out.feed).Items) > 0
  /\ Deref(out.feed) = Deref(first.out.feed)

\* C12: DetectFeedType always returns one of the four FeedType values, and
\* Unknown when the stream has no root start tag (an empty stream included);
\* Parse then returns its detection error and no Feed, and neither an
\* extractor nor the translator has been called
FeedTypes == {FeedTypeUnknown, FeedTypeAtom, FeedTypeRSS, FeedTypeSitemap}

C12_DetectNeverFails ==
  /\ pc \notin {"detect", "idle", "returned"} => feedType \in FeedTypes
  /\ (pc \notin {"detect", "idle", "returned"} /\ FindRoot(doc) = 0) => feedType = FeedTypeUnknown
  /\ (pc = "done" /\ feedType = FeedTypeUnknown) =>
       /\ out = ErrResult("Failed to detect feed type")
       /\ extractor = "none"
       /\ sf = NoResult
       /\ pos = 0
       /\ failures = {}
       /\ delegated = {}
       /\ (call = 1 => SitemapTranslator = NilPtr)

\* Parse has returned on a stream that is not empty and has no root
C12_Witness ==
  /\ pc = "done"
  /\ doc # << >>
  /\ FindRoot(doc) = 0
  /\ feedType = FeedTypeUnknown
  /\ out.err = "Failed to detect feed type"

\* C13: once shared.ParseExtension has failed on an extension element of a
\* <url>, the sitemap parser and Parse both return that error and no Feed, so
\* neither the Item being built nor the Items before it are returned
C13_ExtensionFailureAborts ==
  (<<"extension", "item">> \in failures) =>
    /\ pc \in {"extracted", "done"}
    /\ sf = ErrResult("ext")
    /\ pc = "done" => out = ErrResult("ext")

\* Parse has returned after the extension handler failed inside a <url>
C13_Witness ==
  /\ pc = "done"
  /\ <<"extension", "item">> \in failures
  /\ delegated # {}
  /\ out.feed = NilPtr

C15_ProxyOfTheCall ==
  req.fn = "ParseURLWithProxy" => Deref(req.client).Proxy = Ptr(req.proxyURL)

\* C19: when ParseURL or ParseURLWithProxy has returned, the body of the
\* response it obtained is closed, whichever way the call ended
C19_BodyClosed ==
  (pc = "returned" /\ resp # NoResp) => Deref(resp).closed

\* C20: ParseURL and ParseURLWithProxy return a Feed exactly when they return
\* no error, and an error of Parse is the error they return
C20_FeedIffNoError ==
  pc = "returned" =>
    /\ ret.feed # NilPtr <=> ret.err = ""
    /\ (out # NoResult /\ out.err # "") => ret.err = out.err

\* the start tags of the children of the root that are in an extension namespace
RootExtensions(d, dp) == {k \in ChildStarts(d, dp, FindRoot(d)) : InExtensionNs(d[k])}

\* C16 as the specification states it: every extension element among the
\* children of <urlset> is handed to the extension handler, and none of them
\* produces an Item
C16_RootExtensionsDelegated ==
  SitemapOk =>
    LET dp == Depths(doc)
    IN  /\ RootExtensions(doc, dp) \subseteq delegated
        /\ Len(Deref(sf.feed).Items) = Len(UrlStarts(doc, dp))

\* C16: every extension element among the children of <urlset> is skipped
\* whole, without the extension handler being called on it or on anything
\* inside it, before the loop goes on with the next sibling; the test of the
\* namespace comes before the test of the name, so that an extension element
\* named url produces no Item, and the handler is called on the extension
\* children of the <url> elements only
C16_RootExtensionsSkipped ==
  SitemapOk =>
    LET dp == Depths(doc)
        us == UrlStarts(doc, dp)
    IN  /\ \A k \in RootExtensions(doc, dp) : \A m \in k..Closing(doc, dp, k) : m \notin delegated
        /\ Len(Deref(sf.feed).Items) = Len(us)
        /\ delegated = UNION { {k \in ChildStarts(doc, dp, us[i]) : InExtensionNs(doc[k])} :
                                i \in DOMAIN us }

\* a sitemap whose first child is an extension element named url and whose
\* next child is a <url> has been parsed, and the <url> has given the one Item
C16_Witness ==
  /\ SitemapOk
  /\ LET dp == Depths(doc)
         us == UrlStarts(doc, dp)
     IN  /\ Len(us) = 1
         /\ \E k \in RootExtensions(doc, dp) : ToLower(doc[k].name) = s_url /\ k < us[1]
         /\ Len(Deref(sf.feed).Items) = 1

\* the Image of the url at u: nil without an <image> child, else the text of
\* the last <loc> of the last <image> child
ImageOf(d, dp, u) ==
  LET imgs == Named(d, dp, u, s_image)
      locs == IF imgs = << >> THEN << >> ELSE Named(d, dp, imgs[Len(imgs)], s_loc)
  IN  IF imgs = << >> THEN NilPtr
      ELSE Ptr([Link |-> IF locs = << >> THEN EmptyStr ELSE TextOf(d, locs[Len(locs)])])

\* C17: in the result of a successful sitemap Parse, the Link of each Item
\* comes from the <loc> elements that are children of its <url> alone, and
\* its Image.Link from the <loc> elements inside its <image> alone, in
\* whichever order <image> and <loc> stand in the <url>
C17_LocScopedByParent ==
  SitemapOk =>
    LET dp == Depths(doc)
        us == UrlStarts(doc, dp)
        its == Deref(sf.feed).Items
    IN  \A i \in DOMAIN its :
          /\ i \in DOMAIN us
          /\ its[i].Link = FirstNonEmpty(LocTexts(doc, dp, us[i]))
          /\ its[i].Image = ImageOf(doc, dp, us[i])

\* a <url> whose <image> with a <loc> stands before its own <loc> has been
\* parsed, and the two links differ
C17_Witness ==
  /\ SitemapOk
  /\ LET dp == Depths(doc)
         us == UrlStarts(doc, dp)
         its == Deref(sf.feed).Items
     IN  \E i \in DOMAIN its :
           /\ i \in DOMAIN us
           /\ Named(doc, dp, us[i], s_image) # << >>
           /\ Named(doc, dp, us[i], s_loc) # << >>
           /\ Named(doc, dp, us[i], s_image)[1] < Named(doc, dp, us[i], s_loc)[1]
           /\ its[i].Image # NilPtr
           /\ Deref(its[i].Image).Link = <<"i">>
           /\ its[i].Link \notin {EmptyStr, <<"i">>}

\* C18: on every stream, whole or damaged, each turn of a loop of the sitemap
\* walk moves the cursor forward by at least one token or ends the walk; a
\* turn that finds the end of the input ends the walk with an error; and
\* Parse returns, with either a Feed or an error
C18_WalkAdvancesAndEnds ==
  /\ [][pc = "sitemap" => (pos' > pos \/ pc' = "extracted")]_vars
  /\ [][(pc = "sitemap" /\ NextTag(input, pos) = 0) =>
           (pc' = "extracted" /\ sf'.feed = NilPtr /\ sf'.err # "")]_vars
  /\ <>(pc = "done" /\ ((out.feed # NilPtr) <=> (out.err = "")))

\* Parse has returned an error after the input ended inside parsePublication
C18_Witness ==
  /\ pc = "done"
  /\ <<"nexttag", "publication">> \in failures
  /\ out.feed = NilPtr
  /\ out.err = "eof"

====================================================================
